---- MODULE Spec2Model ----
(***************************************************************************)
(* A model of pwnlib/log.py: the Progress state machine, the Logger        *)
(* facade with its one-time message sets, the level property patched onto  *)
(* the root logger, and the Handler that drives the animated spinner.      *)
(*                                                                         *)
(* Time is counted in milliseconds.  Texts are sequences of characters;    *)
(* the conversion directive "%s" of a format string is one element.        *)
(***************************************************************************)
EXTENDS Integers, Sequences, FiniteSets, TLC

\* ------------------------------------------------------------------ bounds

\* Number of records the loggers may hand to the logging backend.
MaxRecords == 3
\* The clock at start-up and the last instant modelled, in ms.
Epoch == 1000
MaxTime == 1200
\* The clock advances in steps of this many ms.
TickMs == 50
\* Number of frames of the spinner the animator cycles through.
NumFrames == 2
\* Number of threads calling the one-time loggers concurrently.
NumThreads == 2
\* Number of calls of info_once, and of warning_once, with one rendered string.
MaxCalls == 3
\* Number of lines of a message given to the Formatter.
MaxLines == 2

\* ------------------------------------------------------- program constants

\* The levels of the logging module.
NOTSET == 0
DEBUG == 10
INFO == 20
WARNING == 30
ERROR == 40
CRITICAL == 50
\* Progress.status: one update per 100 ms (0.1 s).
ThrottleMs == 100

Levels == {NOTSET, DEBUG, INFO, WARNING, ERROR, CRITICAL}

\* No Progress: the value of 'pwnlib_progress' of a plain record.
None == 0
\* The Progress objects.  A Progress shares no state with another one, only
\* the settings every logger reads and the terminal.
ProgressIds == {1, 2}

\* Texts.
Empty == << >>
Done == <<"D", "o", "n", "e">>
Failed == <<"F", "a", "i", "l", "e", "d">>
BaseTexts == {<<"T">>}
StatusTexts == {<<"c">>}

VARIABLES
    now,             \* time.time(), in ms
    log_level,       \* context.log_level
    term_mode,       \* term.term_mode
    root_level,      \* rootlogger._level, the explicitly set level (NOTSET: none)
    resolved,        \* the last read of rootlogger.level: its result and inputs
    prog,            \* the Progress objects
    spin,            \* per Progress: the spinner thread ("none": no spinner yet)
    stop_event,      \* per Progress: progress._stop_event
    spinner_handle,  \* per Progress: the text of the spinner line
    msg_handle,      \* per Progress: the text of the message line
    frame,           \* per Progress: the animator's local `state`
    term_lines,      \* how many output lines term.output has allocated
    line_of,         \* per Progress: the lines _spinner_handle and _msg_handle
                     \* refer to (0: the attribute is not set)
    started,         \* per Progress: how many spinner threads were started
    records,         \* every record handed to the logging backend, in order
    fg,              \* the foreground thread: where it is in a Progress call
    last_accept,     \* per Progress: when status() last logged a record (0: never)
    one_time_infos,  \* Logger._one_time_infos
    one_time_warnings, \* Logger._one_time_warnings
    thr,             \* the threads calling info_once / warning_once
    once_calls,      \* how often each rendered string was passed to each of them
    call,            \* the last call of error, bug or fatal and how it ended
    formatted,       \* the last record given to Formatter.format and the result
    loggers,         \* _loggers: per name the Logger registered (0: none)
    instances,       \* how many Logger objects were constructed
    gl,              \* the threads calling getLogger
    stored,          \* every <<name, Logger>> ever put into _loggers
    returned         \* every <<name, Logger>> ever returned by getLogger

vars == << now, log_level, term_mode, root_level, resolved, prog, spin,
           stop_event, spinner_handle, msg_handle, frame, term_lines, line_of,
           started, records, fg,
           last_accept, one_time_infos, one_time_warnings, thr, once_calls,
           call, formatted, loggers, instances, gl, stored, returned >>

envVars == << log_level, term_mode, root_level, resolved >>
ownVars == << term_lines, line_of, started >>
spinVars == << spin, stop_event, spinner_handle, msg_handle, frame, ownVars >>
onceVars == << one_time_infos, one_time_warnings, thr, once_calls >>
regVars == << loggers, instances, gl, stored, returned >>
moduleVars == << call, formatted, regVars >>

Min(a, b) == IF a < b THEN a ELSE b

\* ---------------------------------------------------------- level property

\* The getter without the explicitly set level.
getter_ignores_explicit == Min(log_level, INFO)

\* closure.getter: `self._level or min(context.log_level, logging.INFO)`.
getter == IF root_level # NOTSET THEN root_level ELSE Min(log_level, INFO)

\* closure.setter: `self._level = level`.
setter(level) == root_level' = level

\* Handler.level: always context.log_level.
HandlerLevel == log_level

\* Logger.isEnabledFor as the backend computes it for a pwnlib logger: the first
\* level up the hierarchy that is set; above 'pwnlib' is the backend's own root
\* logger, at WARNING.
EffectiveLevel == IF getter # NOTSET THEN getter ELSE WARNING

isEnabledFor(level) == level >= EffectiveLevel

\* A record reaches Handler.emit when the logger is enabled for its level and
\* the handler's level admits it.
Delivered(level) == isEnabledFor(level) /\ level >= HandlerLevel

\* ------------------------------------------------------------------- texts

\* _msgtype_prefixes, without the colour escapes.
msgtype_prefixes ==
    [ status       |-> <<"x">>,
      success      |-> <<"+">>,
      failure      |-> <<"-">>,
      debug        |-> <<"D", "E", "B", "U", "G">>,
      info         |-> <<"*">>,
      warning      |-> <<"!">>,
      error        |-> <<"E", "R", "R", "O", "R">>,
      exception    |-> <<"E", "R", "R", "O", "R">>,
      critical     |-> <<"C", "R", "I", "T", "I", "C", "A", "L">>,
      info_once    |-> <<"*">>,
      warning_once |-> <<"!">> ]

\* '[%s] ' % symbol
Bracket(symbol) == <<"[">> \o symbol \o <<"]", " ">>

\* The frames of the spinner the animator drew at random.
states == [i \in 0 .. NumFrames - 1 |-> <<ToString(i)>>]

\* The text of the record with the separator whenever there is a status.
Compose_always_separates(msg, status) ==
    IF status # Empty
        THEN msg \o <<":", " ">> \o status
        ELSE msg \o status

\* Progress._log, lines 160-163: the text of the record.
Compose(msg, status) ==
    IF msg # Empty /\ status # Empty
        THEN msg \o <<":", " ">> \o status
        ELSE msg \o status

\* ----------------------------------------------------------------- handler

\* Which way a record goes once handed to the backend.
Route(progress, level) ==
    IF ~Delivered(level) THEN "filtered"
    ELSE IF progress = None \/ ~term_mode THEN "default"
    ELSE "animated"

\* term.output(text): a handle on a new line below the n lines allocated so far.
term_output(n) == n + 1

NoLines == [spinner |-> 0, msg |-> 0]

\* Handler.emit without its test for the attribute _spinner_handle: every
\* animated record allocates lines and starts a thread.
emit_respawns(progress, msgtype, msg) ==
    IF progress = None \/ ~term_mode
        THEN UNCHANGED spinVars
        ELSE /\ spinner_handle' = [spinner_handle EXCEPT ![progress] = Empty]
             /\ line_of' = [line_of EXCEPT ![progress] =
                    [ spinner |-> term_output(term_lines),
                      msg     |-> term_output(term_output(term_lines)) ]]
             /\ term_lines' = term_output(term_output(term_lines))
             /\ spin' = [spin EXCEPT ![progress] = "draw"]
             /\ started' = [started EXCEPT ![progress] = @ + 1]
             /\ frame' = [frame EXCEPT ![progress] = 0]
             /\ msg_handle' = [msg_handle EXCEPT ![progress] = msg \o <<"\n">>]
             /\ stop_event' = [stop_event EXCEPT ![progress] = msgtype # "status"]

\* Handler.emit, up to and including `progress._stop_event.set()`.  The message
\* line holds the record formatted with tag 'animated' (no prefix) and a newline.
emit(progress, msgtype, msg) ==
    IF progress = None \/ ~term_mode
        THEN UNCHANGED spinVars
        ELSE /\ IF spin[progress] = "none"
                    THEN /\ spinner_handle' = [spinner_handle EXCEPT ![progress] = Empty]
                         /\ line_of' = [line_of EXCEPT ![progress] =
                                [ spinner |-> term_output(term_lines),
                                  msg     |-> term_output(term_output(term_lines)) ]]
                         /\ term_lines' = term_output(term_output(term_lines))
                         /\ spin' = [spin EXCEPT ![progress] = "draw"]
                         /\ started' = [started EXCEPT ![progress] = @ + 1]
                         /\ frame' = [frame EXCEPT ![progress] = 0]
                    ELSE UNCHANGED << spinner_handle, spin, frame, ownVars >>
             /\ msg_handle' = [msg_handle EXCEPT ![progress] = msg \o <<"\n">>]
             /\ stop_event' = [stop_event EXCEPT ![progress] =
                                 IF msgtype # "status" THEN TRUE
                                 ELSE IF spin[progress] = "none" THEN FALSE
                                 ELSE @]

\* Logger._log: tag the record and hand it to the backend, which filters it by
\* level and calls the handler.
Logger_log(level, msg, args, msgtype, progress) ==
    /\ Len(records) < MaxRecords
    /\ records' = Append(records,
            [ progress        |-> progress,
              level           |-> level,
              msgtype         |-> msgtype,
              pwnlib_msgtype  |-> IF Route(progress, level) = "animated"
                                      THEN "animated" ELSE msgtype,
              msg             |-> msg,
              args            |-> args,
              route           |-> Route(progress, level) ])
    /\ IF Delivered(level)
           THEN emit(progress, msgtype, msg)
           ELSE UNCHANGED spinVars

\* Progress._log without its test of _stopped.
Progress_log_unguarded(p, status, msgtype) ==
    Logger_log(prog[p].level, Compose(prog[p].msg, status), << >>, msgtype, p)

\* Progress._log.
Progress_log(p, status, msgtype) ==
    IF prog[p].stopped
        THEN UNCHANGED << records, spinVars >>
        ELSE Logger_log(prog[p].level, Compose(prog[p].msg, status), << >>, msgtype, p)

\* ---------------------------------------------------------------- Progress

Idle == [pc |-> "idle", p |-> None, msgtype |-> "none", exit |-> "none"]

\* The fields of a Progress, and three that record its history: `scope` (the
\* `with` statement), `explicit` (success() or failure() was called by name) and
\* `arg` (the `status` argument of the last _log that logged a record).
NoProgress ==
    [ created |-> FALSE, msg |-> Empty, status |-> Empty, level |-> NOTSET,
      stopped |-> FALSE, last_status |-> 0, scope |-> "none", explicit |-> FALSE,
      arg |-> Empty ]

Created == {p \in ProgressIds : prog[p].created}

\* The throttle with >= for >.
Accepted_inclusive(p) == (now - prog[p].last_status) >= ThrottleMs

\* Progress.status, line 177: the throttle.
Accepted(p) == (now - prog[p].last_status) > ThrottleMs

\* The constructor that leaves last_status at the time of the initial record.
NewProgress_starts_window(msg, status, level, scoped) ==
    /\ fg.pc = "idle"
    /\ Created # ProgressIds
    /\ LET p == Cardinality(Created) + 1 IN
        /\ prog' = [prog EXCEPT ![p] =
                [ created |-> TRUE, msg |-> msg, status |-> status, level |-> level,
                  stopped |-> FALSE, last_status |-> now,
                  scope |-> IF scoped THEN "in" ELSE "none", explicit |-> FALSE,
                  arg |-> status ]]
        /\ Logger_log(level, Compose(msg, status), << >>, "status", p)
    /\ UNCHANGED << now, envVars, fg, last_accept, onceVars, moduleVars >>

\* Logger.progress and Progress.__init__ (and __enter__ when the Progress is the
\* subject of a `with` statement): the fields are set, the initial record is
\* logged with tag 'status', and last_status is reset to 0.
NewProgress(msg, status, level, scoped) ==
    /\ fg.pc = "idle"
    /\ Created # ProgressIds
    /\ LET p == Cardinality(Created) + 1 IN
        /\ prog' = [prog EXCEPT ![p] =
                [ created |-> TRUE, msg |-> msg, status |-> status, level |-> level,
                  stopped |-> FALSE, last_status |-> 0,
                  scope |-> IF scoped THEN "in" ELSE "none", explicit |-> FALSE,
                  arg |-> status ]]
        /\ Logger_log(level, Compose(msg, status), << >>, "status", p)
    /\ UNCHANGED << now, envVars, fg, last_accept, onceVars, moduleVars >>

\* Progress.status.
Status(p, status) ==
    /\ fg.pc = "idle"
    /\ prog[p].created
    /\ IF Accepted(p)
           THEN /\ prog' = [prog EXCEPT ![p].last_status = now,
                                        ![p].arg = IF prog[p].stopped THEN @ ELSE status]
                /\ Progress_log(p, status, "status")
           ELSE UNCHANGED << prog, records, spinVars >>
    /\ last_accept' = [last_accept EXCEPT ![p] =
                          IF Accepted(p) /\ ~prog[p].stopped THEN now ELSE @]
    /\ UNCHANGED << now, envVars, fg, onceVars, moduleVars >>

\* success() / failure() made to pass the throttle of status() before logging.
Call_throttled(p, msgtype, status, exit) ==
    /\ fg.pc = "idle"
    /\ prog[p].created
    /\ IF Accepted(p)
           THEN Progress_log(p, status, msgtype)
           ELSE UNCHANGED << records, spinVars >>
    /\ fg' = [ pc |-> IF Accepted(p) /\ ~prog[p].stopped
                            /\ Route(p, prog[p].level) = "animated"
                         THEN "join" ELSE "ret",
               p |-> p, msgtype |-> msgtype, exit |-> exit ]
    /\ prog' = [prog EXCEPT ![p].explicit = @ \/ exit = "none",
                            ![p].arg = IF prog[p].stopped THEN @ ELSE status]
    /\ UNCHANGED << now, envVars, last_accept, onceVars, moduleVars >>

\* Progress.success / Progress.failure, the call of _log: the record is logged
\* and, on the animated path, the handler has set the stop event and waits for
\* the spinner thread.
Call(p, msgtype, status, exit) ==
    /\ fg.pc = "idle"
    /\ prog[p].created
    /\ Progress_log(p, status, msgtype)
    /\ fg' = [ pc |-> IF ~prog[p].stopped /\ Route(p, prog[p].level) = "animated"
                         THEN "join" ELSE "ret",
               p |-> p, msgtype |-> msgtype, exit |-> exit ]
    /\ prog' = [prog EXCEPT ![p].explicit = @ \/ exit = "none",
                            ![p].arg = IF prog[p].stopped THEN @ ELSE status]
    /\ UNCHANGED << now, envVars, last_accept, onceVars, moduleVars >>

success(p) == Call(p, "success", Done, "none")

failure(p) == Call(p, "failure", Failed, "none")

\* __exit__ that does not look at the exception.
Exit_always_success(p, exc) ==
    /\ prog[p].scope = "in"
    /\ Call(p, "success", Done, IF exc THEN "exc" ELSE "ok")

\* Progress.__exit__: success() when no exception propagates, else failure().
Exit(p, exc) ==
    /\ prog[p].scope = "in"
    /\ IF exc THEN Call(p, "failure", Failed, "exc")
              ELSE Call(p, "success", Done, "ok")

\* The final write made without joining the spinner thread.
Join_without_join ==
    /\ fg.pc = "join"
    /\ spinner_handle' = [spinner_handle EXCEPT
                             ![fg.p] = Bracket(msgtype_prefixes[fg.msgtype])]
    /\ fg' = [fg EXCEPT !.pc = "ret"]
    /\ UNCHANGED << now, envVars, prog, spin, stop_event, msg_handle, frame,
                    ownVars, records, last_accept, onceVars, moduleVars >>

\* Handler.emit, lines 476-478: the spinner thread is joined, then the prefix of
\* the record's tag is written to the spinner line.
Join ==
    /\ fg.pc = "join"
    /\ spin[fg.p] = "done"
    /\ spinner_handle' = [spinner_handle EXCEPT
                             ![fg.p] = Bracket(msgtype_prefixes[fg.msgtype])]
    /\ fg' = [fg EXCEPT !.pc = "ret"]
    /\ UNCHANGED << now, envVars, prog, spin, stop_event, msg_handle, frame,
                    ownVars, records, last_accept, onceVars, moduleVars >>

\* Progress.success / Progress.failure, `self._stopped = True`, and the return
\* (out of the `with` statement when __exit__ made the call).
Return ==
    /\ fg.pc = "ret"
    /\ prog' = [prog EXCEPT ![fg.p].stopped = TRUE,
                            ![fg.p].scope = IF fg.exit = "none" THEN @ ELSE fg.exit]
    /\ fg' = Idle
    /\ UNCHANGED << now, envVars, spinVars, records, last_accept, onceVars, moduleVars >>

\* ------------------------------------------------------------------ Logger

\* Logger.info: a record of no Progress.
info(message, args) ==
    /\ fg.pc = "idle"
    /\ Logger_log(INFO, message, args, "info", None)
    /\ UNCHANGED << now, envVars, prog, fg, last_accept, onceVars, moduleVars >>

\* ----------------------------------------------------------------- animator

\* spin(), lines 457-459: draw the next frame.
SpinDraw(p) ==
    /\ spin[p] = "draw"
    /\ spinner_handle' = [spinner_handle EXCEPT ![p] = Bracket(states[frame[p]])]
    /\ frame' = [frame EXCEPT ![p] = (@ + 1) % NumFrames]
    /\ spin' = [spin EXCEPT ![p] = "wait"]
    /\ UNCHANGED << now, envVars, prog, stop_event, msg_handle, ownVars, records,
                    fg, last_accept, onceVars, moduleVars >>

\* The wait that ends the thread when it times out too.
SpinWait_exits_on_timeout(p) ==
    /\ spin[p] = "wait"
    /\ spin' = [spin EXCEPT ![p] = "done"]
    /\ UNCHANGED << now, envVars, prog, stop_event, spinner_handle, msg_handle,
                    frame, ownVars, records, fg, last_accept, onceVars, moduleVars >>

\* spin(), lines 460-461: `if stop.wait(0.1): break`.  The wait ends when the
\* event is set or after 100 ms; the thread is scheduled independently of the
\* foreground, so the step may be taken at any time.
SpinWait(p) ==
    /\ spin[p] = "wait"
    /\ spin' = [spin EXCEPT ![p] = IF stop_event[p] THEN "done" ELSE "draw"]
    /\ UNCHANGED << now, envVars, prog, stop_event, spinner_handle, msg_handle,
                    frame, ownVars, records, fg, last_accept, onceVars, moduleVars >>

\* -------------------------------------------------------------- environment

\* time.time() advances.
Tick ==
    /\ now + TickMs <= MaxTime
    /\ now' = now + TickMs
    /\ UNCHANGED << envVars, prog, spinVars, records, fg, last_accept, onceVars, moduleVars >>

\* context.log_level = level
SetLogLevel(level) ==
    /\ log_level' = level
    /\ UNCHANGED << now, term_mode, root_level, resolved, prog, spinVars, records,
                    fg, last_accept, onceVars, moduleVars >>

\* term.term_mode changes.
SetTermMode(mode) ==
    /\ term_mode' = mode
    /\ UNCHANGED << now, log_level, root_level, resolved, prog, spinVars, records,
                    fg, last_accept, onceVars, moduleVars >>

\* rootlogger.setLevel(level) (Logger.setLevel): the patched setter.
SetLevel(level) ==
    /\ setter(level)
    /\ UNCHANGED << now, log_level, term_mode, resolved, prog, spinVars, records,
                    fg, last_accept, onceVars, moduleVars >>

NotRead == [read |-> FALSE, level |-> NOTSET, log_level |-> NOTSET, root_level |-> NOTSET]

\* A read of rootlogger.level: the patched getter.
ReadLevel ==
    /\ resolved' = [ read |-> TRUE, level |-> getter,
                     log_level |-> log_level, root_level |-> root_level ]
    /\ UNCHANGED << now, log_level, term_mode, root_level, prog, spinVars, records,
                    fg, last_accept, onceVars, moduleVars >>

\* ------------------------------------------------------- one-time messages

Threads == 1 .. NumThreads
OnceKinds == {"info_once", "warning_once"}
Loggers == {"pwnlib", "pwnlib.tubes"}

\* `message % args`: each "%s" of the format is replaced by the next argument.
RECURSIVE Format(_, _)
Format(message, args) ==
    IF message = << >> THEN << >>
    ELSE IF Head(message) = "%s"
        THEN Head(args) \o Format(Tail(message), Tail(args))
        ELSE << Head(message) >> \o Format(Tail(message), args)

\* The calls made: "U%s" % "b", "U%s" % "a", and "Ub" with no argument.
OnceInputs ==
    { [message |-> <<"U", "%s">>, args |-> << <<"b">> >>],
      [message |-> <<"U", "%s">>, args |-> << <<"a">> >>],
      [message |-> <<"U", "b">>, args |-> << >>] }

Rendered == {Format(c.message, c.args) : c \in OnceInputs}

IdleThread ==
    [ pc |-> "idle", kind |-> "none", logger |-> "none",
      message |-> << >>, args |-> << >>, m |-> << >> ]

\* The set a one-time logger tests: both are attributes of the class Logger,
\* shared by every instance.
OnceSet(kind) == IF kind = "info_once" THEN one_time_infos ELSE one_time_warnings

OnceLevel(kind) == IF kind = "info_once" THEN INFO ELSE WARNING

\* info_once / warning_once, lines 300-301 (310-311): render the message and
\* test the set.  A message seen before ends the call.
OnceTest(t, kind, logger, message, args) ==
    LET m == Format(message, args) IN
    /\ thr[t].pc = "idle"
    /\ once_calls[<<kind, m>>] < MaxCalls
    /\ once_calls' = [once_calls EXCEPT ![<<kind, m>>] = @ + 1]
    /\ thr' = [thr EXCEPT ![t] =
                 IF m \notin OnceSet(kind)
                     THEN [ pc |-> "add", kind |-> kind, logger |-> logger,
                            message |-> message, args |-> args, m |-> m ]
                     ELSE IdleThread]
    /\ UNCHANGED << now, envVars, prog, spinVars, records, fg, last_accept,
                    one_time_infos, one_time_warnings, moduleVars >>

\* The one-time logger that forgets to remember the message.
OnceAdd_forgets(t) ==
    /\ thr[t].pc = "add"
    /\ thr' = [thr EXCEPT ![t].pc = "log"]
    /\ UNCHANGED << now, envVars, prog, spinVars, records, fg, last_accept,
                    one_time_infos, one_time_warnings, once_calls, moduleVars >>

\* The one-time logger that remembers only the messages that are delivered.
OnceAdd_if_delivered(t) ==
    /\ thr[t].pc = "add"
    /\ IF ~Delivered(OnceLevel(thr[t].kind))
           THEN UNCHANGED << one_time_infos, one_time_warnings >>
           ELSE IF thr[t].kind = "info_once"
               THEN /\ one_time_infos' = one_time_infos \cup {thr[t].m}
                    /\ UNCHANGED one_time_warnings
               ELSE /\ one_time_warnings' = one_time_warnings \cup {thr[t].m}
                    /\ UNCHANGED one_time_infos
    /\ thr' = [thr EXCEPT ![t].pc = "log"]
    /\ UNCHANGED << now, envVars, prog, spinVars, records, fg, last_accept, once_calls,
                    moduleVars >>

\* info_once / warning_once, line 302 (312): add the rendered message to the set.
OnceAdd(t) ==
    /\ thr[t].pc = "add"
    /\ IF thr[t].kind = "info_once"
           THEN /\ one_time_infos' = one_time_infos \cup {thr[t].m}
                /\ UNCHANGED one_time_warnings
           ELSE /\ one_time_warnings' = one_time_warnings \cup {thr[t].m}
                /\ UNCHANGED one_time_infos
    /\ thr' = [thr EXCEPT ![t].pc = "log"]
    /\ UNCHANGED << now, envVars, prog, spinVars, records, fg, last_accept, once_calls,
                    moduleVars >>

\* info_once / warning_once, line 303 (313): log the record.
OnceLog(t) ==
    /\ thr[t].pc = "log"
    /\ Logger_log(OnceLevel(thr[t].kind), thr[t].message, thr[t].args,
                  thr[t].kind, None)
    /\ thr' = [thr EXCEPT ![t] = IdleThread]
    /\ UNCHANGED << now, envVars, prog, fg, last_accept, one_time_infos,
                    one_time_warnings, once_calls, moduleVars >>

\* --------------------------------------------------------------- Formatter

\* The value of 'pwnlib_msgtype' of a record that has no such attribute.
NoTag == "(none)"

\* Formatter.indent and Formatter.nlindent.
indent == <<" ", " ", " ", " ">>
nlindent == <<"\n">> \o indent

\* str.splitlines for texts whose only line break is "\n": a line break ends a
\* line, and the text after the last one is a line unless it is empty.
RECURSIVE splitlines(_)
splitlines(text) ==
    IF text = << >> THEN << >>
    ELSE LET breaks == {i \in 1 .. Len(text) : text[i] = "\n"}
         IN  IF breaks = {} THEN << text >>
             ELSE LET k == CHOOSE i \in breaks : \A j \in breaks : i <= j
                  IN  << SubSeq(text, 1, k - 1) >>
                          \o splitlines(SubSeq(text, k + 1, Len(text)))

\* sep.join(parts)
RECURSIVE join(_, _)
join(sep, parts) ==
    IF parts = << >> THEN << >>
    ELSE IF Len(parts) = 1 THEN Head(parts)
    ELSE Head(parts) \o sep \o join(sep, Tail(parts))

\* Formatter.format that joins the lines with a bare line break.
Formatter_format_flat(record) ==
    LET msg == Format(record.msg, record.args)
        msgtype == record.pwnlib_msgtype
        prefix == IF msgtype \in DOMAIN msgtype_prefixes
                      THEN Bracket(msgtype_prefixes[msgtype])
                  ELSE IF msgtype = "indented" THEN indent
                  ELSE IF msgtype = "animated" THEN Empty
                  ELSE <<"[", "?", "]", " ">>
    IN  IF msgtype = NoTag THEN msg
        ELSE join(<<"\n">>, splitlines(prefix \o msg))

\* Formatter.format.  The default rendering of a record with no exception
\* attached is `msg % args`.
Formatter_format(record) ==
    LET msg == Format(record.msg, record.args)
        msgtype == record.pwnlib_msgtype
        prefix == IF msgtype \in DOMAIN msgtype_prefixes
                      THEN Bracket(msgtype_prefixes[msgtype])
                  ELSE IF msgtype = "indented" THEN indent
                  ELSE IF msgtype = "animated" THEN Empty
                  ELSE <<"[", "?", "]", " ">>
    IN  IF msgtype = NoTag THEN msg
        ELSE join(nlindent, splitlines(prefix \o msg))

NotFormatted ==
    [ done |-> FALSE, msgtype |-> NoTag, lines |-> << >>, terminated |-> FALSE,
      out |-> << >> ]

\* The tags given to the Formatter: those of the table, 'indented', 'animated',
\* one the module does not know, and none.
Tags == DOMAIN msgtype_prefixes \cup {"indented", "animated", "other", NoTag}

\* The lines messages are made of; "%s" stands for the argument "a".
LineTexts == {Empty, <<"o", "n", "e">>, <<"t", "w", "o">>, <<"n", "%s">>}

\* The messages: one to MaxLines lines, the last one not empty when there are
\* several, with or without a line break at the end.
MessageLines ==
    UNION {{ls \in [1 .. n -> LineTexts] : n > 1 => ls[n] # Empty} : n \in 1 .. MaxLines}

\* The lines separated by line breaks, with one at the end when terminated.
Message(lines, terminated) ==
    join(<<"\n">>, lines) \o (IF terminated THEN <<"\n">> ELSE << >>)

\* One argument for every "%s" of the message.
Arguments(message) ==
    [i \in 1 .. Cardinality({j \in 1 .. Len(message) : message[j] = "%s"}) |-> <<"a">>]

\* The records the Formatter is given, not formatted yet.
FormatInputs ==
    [ done : {FALSE}, msgtype : Tags, lines : MessageLines, terminated : BOOLEAN,
      out : {<< >>} ]

\* The record is given to Formatter.format.
FormatRecord ==
    LET message == Message(formatted.lines, formatted.terminated)
        record == [pwnlib_msgtype |-> formatted.msgtype, msg |-> message,
                   args |-> Arguments(message)]
    IN  /\ ~formatted.done
        /\ formatted' = [formatted EXCEPT !.done = TRUE,
                                          !.out = Formatter_format(record)]
        /\ UNCHANGED << now, envVars, prog, spinVars, records, fg, last_accept,
                        onceVars, call, regVars >>

\* ------------------------------------------------- calls that do not return

NoCall ==
    [ op |-> "none", pc |-> "idle", message |-> << >>, args |-> << >>,
      outcome |-> "none", value |-> << >> ]

\* The messages and arguments passed to error and fatal.
CallInputs ==
    { [message |-> <<"e">>, args |-> << >>],
      [message |-> <<"e", "%s">>, args |-> << <<"a">> >>] }

\* Logger.error, line 347: the record is logged, with level ERROR and tag 'error'.
error(message, args) ==
    /\ fg.pc = "idle" /\ call.pc = "idle"
    /\ Logger_log(ERROR, message, args, "error", None)
    /\ call' = [ op |-> "error", pc |-> "raise", message |-> message,
                 args |-> args, outcome |-> "none", value |-> << >> ]
    /\ UNCHANGED << now, envVars, prog, fg, last_accept, onceVars, formatted, regVars >>

\* Logger.error that returns when its record was filtered out.
error_raise_if_delivered ==
    /\ call.op = "error" /\ call.pc = "raise"
    /\ call' = IF records[Len(records)].route = "filtered"
                   THEN [call EXCEPT !.pc = "idle", !.outcome = "returned"]
                   ELSE [call EXCEPT !.pc = "idle", !.outcome = "PwnlibException",
                                     !.value = Format(call.message, call.args)]
    /\ UNCHANGED << now, envVars, prog, spinVars, records, fg, last_accept, onceVars,
                    formatted, regVars >>

\* Logger.error, line 348: `raise PwnlibException(message % args)`.
error_raise ==
    /\ call.op = "error" /\ call.pc = "raise"
    /\ call' = [call EXCEPT !.pc = "idle", !.outcome = "PwnlibException",
                            !.value = Format(call.message, call.args)]
    /\ UNCHANGED << now, envVars, prog, spinVars, records, fg, last_accept, onceVars,
                    formatted, regVars >>

\* bug, line 593: `raise Exception(msg)`.
bug(msg) ==
    /\ fg.pc = "idle" /\ call.pc = "idle"
    /\ call' = [ op |-> "bug", pc |-> "idle", message |-> msg, args |-> << >>,
                 outcome |-> "Exception", value |-> msg ]
    /\ UNCHANGED << now, envVars, prog, spinVars, records, fg, last_accept, onceVars,
                    formatted, regVars >>

\* Logger.critical, lines 361-365, called by the name `op`: the record is logged
\* with level CRITICAL and tag 'critical', and the call returns.
Logger_critical(op, message, args) ==
    /\ fg.pc = "idle" /\ call.pc = "idle"
    /\ Logger_log(CRITICAL, message, args, "critical", None)
    /\ call' = [ op |-> op, pc |-> "idle", message |-> message, args |-> args,
                 outcome |-> "returned", value |-> << >> ]
    /\ UNCHANGED << now, envVars, prog, fg, last_accept, onceVars, formatted, regVars >>

\* The module's `critical`, line 629: rootlogger.critical.
critical(message, args) == Logger_critical("critical", message, args)

\* The module's `fatal`.  Line 594 defines it as `raise SystemExit(msg)`; line
\* 630, the last of the module, binds the name again, to rootlogger.fatal, which
\* is Logger.critical (line 367).
fatal(message, args) == Logger_critical("fatal", message, args)

\* ---------------------------------------------------------------- registry

NotGetting == [pc |-> "idle", name |-> "none"]

\* getLogger, line 534: `if name not in _loggers`.
getLogger(t, name) ==
    /\ gl[t].pc = "idle"
    /\ gl' = [gl EXCEPT ![t] = [ pc |-> IF loggers[name] = 0 THEN "store" ELSE "return",
                                 name |-> name ]]
    /\ UNCHANGED << now, envVars, prog, spinVars, records, fg, last_accept, onceVars,
                    call, formatted, loggers, instances, stored, returned >>

\* getLogger, line 537: a new Logger is constructed and put into _loggers.
getLogger_store(t) ==
    /\ gl[t].pc = "store"
    /\ instances' = instances + 1
    /\ loggers' = [loggers EXCEPT ![gl[t].name] = instances + 1]
    /\ stored' = stored \cup {<< gl[t].name, instances + 1 >>}
    /\ gl' = [gl EXCEPT ![t].pc = "return"]
    /\ UNCHANGED << now, envVars, prog, spinVars, records, fg, last_accept, onceVars,
                    call, formatted, returned >>

\* getLogger, line 538: `return _loggers[name]`.
getLogger_return(t) ==
    /\ gl[t].pc = "return"
    /\ returned' = returned \cup {<< gl[t].name, loggers[gl[t].name] >>}
    /\ gl' = [gl EXCEPT ![t] = NotGetting]
    /\ UNCHANGED << now, envVars, prog, spinVars, records, fg, last_accept, onceVars,
                    call, formatted, loggers, instances, stored >>

\* ------------------------------------------------------------ specification

InitOthers ==
    /\ now = Epoch
    /\ log_level = INFO
    /\ term_mode \in BOOLEAN
    /\ root_level = NOTSET
    /\ resolved = NotRead
    /\ prog = [p \in ProgressIds |-> NoProgress]
    /\ spin = [p \in ProgressIds |-> "none"]
    /\ stop_event = [p \in ProgressIds |-> FALSE]
    /\ spinner_handle = [p \in ProgressIds |-> Empty]
    /\ msg_handle = [p \in ProgressIds |-> Empty]
    /\ frame = [p \in ProgressIds |-> 0]
    /\ term_lines = 0
    /\ line_of = [p \in ProgressIds |-> NoLines]
    /\ started = [p \in ProgressIds |-> 0]
    /\ records = << >>
    /\ fg = Idle
    /\ last_accept = [p \in ProgressIds |-> 0]
    /\ one_time_infos = {}
    /\ one_time_warnings = {}
    /\ thr = [t \in Threads |-> IdleThread]
    /\ once_calls = [c \in OnceKinds \X Rendered |-> 0]
    /\ call = NoCall
    /\ loggers = [name \in Loggers |-> IF name = "pwnlib" THEN 1 ELSE 0]
    /\ instances = 1
    /\ gl = [t \in Threads |-> NotGetting]
    /\ stored = {<<"pwnlib", 1>>}
    /\ returned = {}

Init == InitOthers /\ formatted = NotFormatted

\* One Progress, its handler and spinner thread, the clock and the settings.
Next ==
    \/ \E msg \in BaseTexts, status \in {Empty}, level \in {INFO},
          scoped \in BOOLEAN : Created = {} /\ NewProgress(msg, status, level, scoped)
    \/ \E p \in ProgressIds, status \in StatusTexts : Status(p, status)
    \/ \E p \in ProgressIds : success(p)
    \/ \E p \in ProgressIds : failure(p)
    \/ \E p \in ProgressIds, exc \in BOOLEAN : Exit(p, exc)
    \/ Join
    \/ Return
    \/ \E p \in ProgressIds : SpinDraw(p)
    \/ \E p \in ProgressIds : SpinWait(p)
    \/ Tick
    \/ \E level \in {INFO, ERROR} : SetLogLevel(level)
    \/ \E mode \in BOOLEAN : SetTermMode(mode)

Spec == Init /\ [][Next]_vars

\* One Progress, with and without a base message and a status.
TextNext ==
    \/ \E msg \in BaseTexts \cup {Empty}, status \in StatusTexts \cup {Empty} :
          Created = {} /\ NewProgress(msg, status, INFO, FALSE)
    \/ \E p \in ProgressIds, status \in StatusTexts \cup {Empty} : Status(p, status)
    \/ \E p \in ProgressIds : success(p)
    \/ \E p \in ProgressIds : failure(p)
    \/ Join
    \/ Return
    \/ \E p \in ProgressIds : SpinDraw(p)
    \/ \E p \in ProgressIds : SpinWait(p)
    \/ Tick

SpecText == Init /\ [][TextNext]_vars

\* One Progress at one instant, its spinner thread scheduled fairly and the
\* foreground, blocked in join(), resumed once the thread has ended.
LifeNext ==
    \/ \E msg \in BaseTexts : Created = {} /\ NewProgress(msg, Empty, INFO, FALSE)
    \/ \E p \in ProgressIds, status \in StatusTexts : Status(p, status)
    \/ \E p \in ProgressIds : success(p)
    \/ \E p \in ProgressIds : failure(p)
    \/ Join
    \/ Return
    \/ \E p \in ProgressIds : SpinDraw(p)
    \/ \E p \in ProgressIds : SpinWait(p)
    \/ \E level \in {INFO, ERROR} : SetLogLevel(level)
    \/ \E mode \in BOOLEAN : SetTermMode(mode)

SpecLife ==
    /\ Init
    /\ [][LifeNext]_vars
    /\ \A p \in ProgressIds : WF_vars(SpinDraw(p)) /\ WF_vars(SpinWait(p))
    /\ WF_vars(Join)

\* Two Progress objects and a plain logger on one terminal, at one instant.
OwnNext ==
    \/ \E msg \in BaseTexts : NewProgress(msg, Empty, INFO, FALSE)
    \/ \E p \in ProgressIds, status \in StatusTexts : Status(p, status)
    \/ \E p \in ProgressIds : success(p)
    \/ Join
    \/ Return
    \/ \E p \in ProgressIds : SpinDraw(p)
    \/ \E p \in ProgressIds : SpinWait(p)
    \/ info(<<"i">>, << >>)
    \/ \E level \in {INFO, ERROR} : SetLogLevel(level)
    \/ \E mode \in BOOLEAN : SetTermMode(mode)

SpecOwn == Init /\ [][OwnNext]_vars

\* The calls that report a failure, under the level settings.
CallsNext ==
    \/ \E c \in CallInputs : error(c.message, c.args)
    \/ error_raise
    \/ \E msg \in {<<"b">>, <<"c">>} : bug(msg)
    \/ \E c \in CallInputs : fatal(c.message, c.args)
    \/ \E c \in CallInputs : critical(c.message, c.args)
    \/ \E level \in {DEBUG, INFO, CRITICAL} : SetLogLevel(level)
    \/ \E level \in {NOTSET, CRITICAL} : SetLevel(level)

SpecCalls == Init /\ [][CallsNext]_vars

\* The Formatter applied to a record of whichever tag and message.
InitFormat == InitOthers /\ formatted \in FormatInputs

FormatNext == FormatRecord

SpecFormat == InitFormat /\ [][FormatNext]_vars

\* getLogger called from several threads.
RegistryNext ==
    \/ \E t \in Threads, name \in Loggers : getLogger(t, name)
    \/ \E t \in Threads : getLogger_store(t)
    \/ \E t \in Threads : getLogger_return(t)

SpecRegistry == Init /\ [][RegistryNext]_vars

\* The level property of the root logger, under every setting of
\* context.log_level (any integer is a level; every fifth one here).
GlobalLevels == {5 * i : i \in 0 .. 10}

LevelNext ==
    \/ \E level \in GlobalLevels : SetLogLevel(level)
    \/ \E level \in Levels : SetLevel(level)
    \/ ReadLevel

SpecLevel == Init /\ [][LevelNext]_vars

\* The one-time loggers called from several threads, with the messages that
\* render the same.
OnceNext ==
    \/ \E t \in Threads, kind \in OnceKinds, logger \in Loggers,
          c \in {d \in OnceInputs : Format(d.message, d.args) = <<"U", "b">>} :
          OnceTest(t, kind, logger, c.message, c.args)
    \/ \E t \in Threads : OnceAdd(t)
    \/ \E t \in Threads : OnceLog(t)

SpecOnce == Init /\ [][OnceNext]_vars

\* The one-time loggers called one call after the other.
OnceSeqNext ==
    \/ \E t \in Threads, kind \in OnceKinds, logger \in Loggers, c \in OnceInputs :
          /\ \A u \in Threads : thr[u].pc = "idle"
          /\ OnceTest(t, kind, logger, c.message, c.args)
    \/ \E t \in Threads : OnceAdd(t)
    \/ \E t \in Threads : OnceLog(t)

SpecOnceSeq == Init /\ [][OnceSeqNext]_vars

\* The one-time loggers called one call after the other, with one rendered
\* string, while context.log_level changes between the calls.
OnceLevelNext ==
    \/ \E t \in Threads, kind \in OnceKinds, logger \in Loggers,
          c \in {d \in OnceInputs : Format(d.message, d.args) = <<"U", "b">>} :
          /\ \A u \in Threads : thr[u].pc = "idle"
          /\ OnceTest(t, kind, logger, c.message, c.args)
    \/ \E t \in Threads : OnceAdd(t)
    \/ \E t \in Threads : OnceLog(t)
    \/ \E level \in {INFO, WARNING, ERROR} :
          (\A u \in Threads : thr[u].pc = "idle") /\ SetLogLevel(level)

SpecOnceLevel == Init /\ [][OnceLevelNext]_vars

\* ------------------------------------------------------------------ claims

\* The records of Progress p among rs, and how many of them carry tag msgtype.
RecordsOf(rs, p) == SelectSeq(rs, LAMBDA r : r.progress = p)

Count(rs, p, msgtype) ==
    Len(SelectSeq(rs, LAMBDA r : r.progress = p /\ r.msgtype = msgtype))

\* What a Progress stores: _msg, _status, _level, _stopped, last_status.
Stored(q) ==
    [ msg |-> q.msg, status |-> q.status, level |-> q.level,
      stopped |-> q.stopped, last_status |-> q.last_status ]

Active(p) == prog[p].created /\ ~prog[p].stopped

\* C1: once success() or failure() has returned on a Progress, no step (no
\* later status(), success() or failure(), at whatever time) adds a record of
\* that Progress.
C1_TerminalNoRecords ==
    [][\A p \in ProgressIds :
          prog[p].stopped => RecordsOf(records', p) = RecordsOf(records, p)]_vars

\* C1 witness: success() or failure() is running on a Progress that is already
\* stopped, which has its terminal record and nothing after it.
C1_Witness ==
    \E p \in ProgressIds :
        /\ prog[p].stopped
        /\ fg.pc = "ret" /\ fg.p = p
        /\ now > Epoch
        /\ Count(records, p, "success") + Count(records, p, "failure") = 1

\* C2: once a Progress is stopped, no step changes what it stores (the stopped
\* flag, the status text, the base message, the level, last_status).
C2_TerminalStateFrozen ==
    [][\A p \in ProgressIds :
          prog[p].stopped => Stored(prog'[p]) = Stored(prog[p])]_vars

\* C3: on an Active Progress, between calls of success()/failure(): within
\* 100 ms of the last status() that logged a record, no step logs a record of
\* the Progress or changes what it stores or shows; a status record is logged
\* only when more than 100 ms have passed since then, it sets last_status to the
\* time of the call, and nothing restarts the window without logging a record.
C3_Throttle ==
    [][\A p \in ProgressIds :
          LET window == last_accept[p] # 0 /\ now - last_accept[p] <= 100
              emitted == /\ Len(records') = Len(records) + 1
                         /\ records'[Len(records')].progress = p
          IN  (Active(p) /\ fg.pc = "idle" /\ fg'.pc = "idle") =>
                /\ window => /\ records' = records
                             /\ prog'[p] = prog[p]
                             /\ last_accept'[p] = last_accept[p]
                             /\ msg_handle'[p] = msg_handle[p]
                /\ emitted => /\ ~window
                              /\ records'[Len(records')].msgtype = "status"
                              /\ prog'[p].last_status = now
                              /\ last_accept'[p] = now
                /\ (prog'[p].last_status # prog[p].last_status
                        \/ last_accept'[p] # last_accept[p]) => emitted]_vars

\* C3 witness: two status() calls have logged a record each (after the initial
\* one), and the clock is again within 100 ms of the second.
C3_Witness ==
    \E p \in ProgressIds :
        /\ Active(p)
        /\ Count(records, p, "status") = 3
        /\ last_accept[p] # 0 /\ now - last_accept[p] = 50

\* C4: while success() or failure() runs on a Progress that was Active, exactly
\* one terminal record of the Progress has been logged, it is the last record
\* and carries the tag of the call, and the stopped flag is not set yet; when
\* the call has returned the Progress is stopped.
C4_TerminalBypass ==
    \A p \in ProgressIds :
        LET terminal == Count(records, p, "success") + Count(records, p, "failure")
        IN  /\ (fg.pc # "idle" /\ fg.p = p /\ ~prog[p].stopped) =>
                  /\ terminal = 1
                  /\ records[Len(records)].progress = p
                  /\ records[Len(records)].msgtype = fg.msgtype
                  /\ fg.msgtype \in {"success", "failure"}
            /\ (terminal > 0 /\ ~(fg.pc # "idle" /\ fg.p = p)) => prog[p].stopped
            /\ prog[p].stopped => terminal = 1

\* C4 witness: failure() has logged its record within 100 ms of an accepted
\* status() and has not set the flag yet.
C4_Witness ==
    \E p \in ProgressIds :
        /\ fg.pc = "ret" /\ fg.p = p /\ fg.msgtype = "failure" /\ ~prog[p].stopped
        /\ last_accept[p] # 0 /\ now - last_accept[p] < 100
        /\ Count(records, p, "failure") = 1

\* C5: when the `with` statement of a Progress has been left and its body
\* called neither success() nor failure(), the Progress is stopped and has
\* logged one success record and no failure record (normal exit), or one
\* failure record and no success record (exit by an exception).
C5_ScopedExit ==
    \A p \in ProgressIds :
        (prog[p].scope \in {"ok", "exc"} /\ ~prog[p].explicit) =>
            /\ prog[p].stopped
            /\ prog[p].scope = "ok" =>
                  Count(records, p, "success") = 1 /\ Count(records, p, "failure") = 0
            /\ prog[p].scope = "exc" =>
                  Count(records, p, "failure") = 1 /\ Count(records, p, "success") = 0

\* C5 witness: a scope left by an exception, its body having called neither.
C5_Witness ==
    \E p \in ProgressIds :
        /\ prog[p].scope = "exc" /\ ~prog[p].explicit
        /\ Count(records, p, "failure") = 1

\* C6: when the `with` statement of a Progress whose spinner thread was
\* started has been left, the stop event is set and the thread has ended.
C6_SpinnerReleased ==
    \A p \in ProgressIds :
        (prog[p].scope \in {"ok", "exc"} /\ spin[p] # "none") =>
            stop_event[p] /\ spin[p] = "done"

\* How many records with tag kind render as m.
Emitted(kind, m) ==
    Len(SelectSeq(records, LAMBDA r : r.msgtype = kind /\ Format(r.msg, r.args) = m))

AllIdle == \A t \in Threads : thr[t].pc = "idle"

\* C7: with the calls of info_once and warning_once made one after the other,
\* through whichever loggers: no rendered string is logged twice by the same
\* one-time logger, and once the calls have returned every rendered string that
\* was passed to it, however often, has been logged exactly once.
C7_OnceSequential ==
    \A kind \in OnceKinds, m \in Rendered :
        /\ Emitted(kind, m) <= 1
        /\ once_calls[<<kind, m>>] = 0 => Emitted(kind, m) = 0
        /\ (AllIdle /\ once_calls[<<kind, m>>] > 0) => Emitted(kind, m) = 1

\* C7 witness: three calls of info_once rendering "Ub" and one rendering "Ua"
\* have returned; each string was logged once.
C7_Witness ==
    /\ AllIdle
    /\ once_calls[<<"info_once", <<"U", "b">> >>] = 3
    /\ once_calls[<<"info_once", <<"U", "a">> >>] = 1
    /\ Emitted("info_once", <<"U", "b">>) = 1
    /\ Emitted("info_once", <<"U", "a">>) = 1
    /\ Len(records) = 2

\* C8: with info_once (or warning_once) called from several threads at once,
\* no rendered string is logged twice by the same one-time logger.
C8_OnceConcurrent ==
    \A kind \in OnceKinds, m \in Rendered : Emitted(kind, m) <= 1

C10_LevelFloor ==
    (resolved.read /\ resolved.root_level = NOTSET) =>
        resolved.level = IF resolved.log_level = DEBUG THEN DEBUG ELSE INFO

\* The spinner line holds the static glyph of a terminal record.
StaticGlyphs == {Bracket(msgtype_prefixes[t]) : t \in {"success", "failure"}}

\* C11: while the handler deals with a terminal record of an animated Progress
\* the stop event is set and the static glyph is not written yet; the glyph is
\* written, as the prefix of that record's tag, only once the spinner thread
\* has ended; and from then on no step, of whichever thread, changes the
\* spinner line.
C11_FinalWriteOrdering ==
    /\ [](\A p \in ProgressIds :
            /\ (fg.pc = "join" /\ fg.p = p) =>
                  stop_event[p] /\ spinner_handle[p] \notin StaticGlyphs
            /\ spinner_handle[p] \in StaticGlyphs =>
                  stop_event[p] /\ spin[p] = "done")
    /\ [][/\ (fg.pc = "join" /\ fg'.pc # "join") =>
               /\ spin[fg.p] = "done"
               /\ spinner_handle'[fg.p] =
                     Bracket(msgtype_prefixes[records[Len(records)].msgtype])
           /\ \A p \in ProgressIds :
                 spinner_handle[p] \in StaticGlyphs =>
                     spinner_handle'[p] = spinner_handle[p]]_vars

\* C11 witness: a Progress animated since an earlier status record has failed;
\* its spinner thread drew frames, was stopped and joined, and the spinner line
\* holds the glyph of failure after the call returned.
C11_Witness ==
    \E p \in ProgressIds :
        /\ Count(records, p, "status") = 2
        /\ records[1].route = "animated"
        /\ Count(records, p, "failure") = 1
        /\ prog[p].stopped /\ fg.pc = "idle"
        /\ spin[p] = "done" /\ frame[p] = 1
        /\ spinner_handle[p] = Bracket(msgtype_prefixes["failure"])

\* The lines a Progress holds handles on.
LinesOf(p) == {line_of[p].spinner, line_of[p].msg} \ {0}

C13_ErrorNeverSilent ==
    /\ [](call.op = "error" =>
            /\ call.outcome # "returned"
            /\ call.pc = "raise" =>
                  LET r == records[Len(records)]
                  IN  /\ r.level = ERROR /\ r.msgtype = "error"
                      /\ r.msg = call.message /\ r.args = call.args
            /\ call.pc = "idle" =>
                  /\ call.outcome = "PwnlibException"
                  /\ call.value = IF call.args = << >> THEN call.message
                                                       ELSE <<"e", "a">>)
    /\ [][(call' # call /\ call'.op = "error") =>
              \/ /\ call.pc = "idle" /\ call'.pc = "raise"
                 /\ Len(records') = Len(records) + 1
                 /\ SubSeq(records', 1, Len(records)) = records
              \/ /\ call.pc = "raise" /\ call'.pc = "idle"
                 /\ records' = records]_vars

\* C13 witness: error("e%s", "a") was called with context.log_level at
\* CRITICAL; its record was filtered out and the call raised PwnlibException
\* with the text "ea".
C13_Witness ==
    /\ call.op = "error" /\ call.pc = "idle"
    /\ call.outcome = "PwnlibException" /\ call.value = <<"e", "a">>
    /\ Len(records) = 1
    /\ records[1].msgtype = "error" /\ records[1].route = "filtered"

\* C14: a call of the module's bug never returns, it raises Exception with the
\* message; a call of the module's fatal never returns, it ends the process
\* (raises SystemExit) with the message.
C14_LegacyFailures ==
    /\ call.op = "bug" =>
          call.outcome = "Exception" /\ call.value = call.message
    /\ call.op = "fatal" =>
          call.outcome = "SystemExit" /\ call.value = call.message

\* C15: once Handler.emit has returned for a record, the record's attribute
\* pwnlib_msgtype is the tag the record was constructed with, on the default
\* path and on the animated path.
C15_RecordImmutable ==
    \A i \in 1 .. Len(records) :
        (records[i].route # "filtered" /\ (i < Len(records) \/ fg.pc # "join")) =>
            records[i].pwnlib_msgtype = records[i].msgtype

\* The text of a line: every "%s" replaced by "a".
RECURSIVE LineText(_)
LineText(line) ==
    IF line = << >> THEN << >>
    ELSE (IF Head(line) = "%s" THEN <<"a">> ELSE << Head(line) >>)
             \o LineText(Tail(line))

\* The first line, and every following line after a line break and four spaces.
RECURSIVE Layout(_)
Layout(lines) ==
    IF Len(lines) = 1 THEN LineText(lines[1])
    ELSE LineText(lines[1]) \o <<"\n", " ", " ", " ", " ">> \o Layout(Tail(lines))

\* The lines as the default rendering has them.
RECURSIVE Plain(_)
Plain(lines) ==
    IF Len(lines) = 1 THEN LineText(lines[1])
    ELSE LineText(lines[1]) \o <<"\n">> \o Plain(Tail(lines))

\* C16: Formatter.format returns the default rendering as it is for a record
\* without a tag; for a tagged record it returns the prefix ("[<glyph>] " for a
\* tag of the table, four spaces for 'indented', nothing for 'animated',
\* "[?] " for any other tag), then the first line, then every following line
\* after a line break and four spaces.  A line break at the end of the message
\* ends its last line and starts no new one.
C16_FormatterLayout ==
    formatted.done =>
        LET t == formatted.msgtype
            glyph == [ status |-> "x", success |-> "+", failure |-> "-",
                       debug |-> "DEBUG", info |-> "*", warning |-> "!",
                       error |-> "ERROR", exception |-> "ERROR",
                       critical |-> "CRITICAL", info_once |-> "*",
                       warning_once |-> "!" ]
            chars == [ x |-> <<"x">>, DEBUG |-> <<"D", "E", "B", "U", "G">>,
                       ERROR |-> <<"E", "R", "R", "O", "R">>,
                       CRITICAL |-> <<"C", "R", "I", "T", "I", "C", "A", "L">> ]
            text(g) == IF g \in DOMAIN chars THEN chars[g] ELSE << g >>
            prefix == IF t \in DOMAIN glyph
                          THEN <<"[">> \o text(glyph[t]) \o <<"]", " ">>
                      ELSE IF t = "indented" THEN <<" ", " ", " ", " ">>
                      ELSE IF t = "animated" THEN << >>
                      ELSE <<"[", "?", "]", " ">>
        IN  formatted.out =
                IF t = NoTag
                    THEN Plain(formatted.lines)
                             \o (IF formatted.terminated THEN <<"\n">> ELSE << >>)
                    ELSE prefix \o Layout(formatted.lines)

\* C16 witness: the message "one\ntwo" tagged 'info' is rendered as
\* "[*] one\n    two".
C16_Witness ==
    /\ formatted.done
    /\ formatted.msgtype = "info"
    /\ Message(formatted.lines, formatted.terminated) =
           <<"o", "n", "e", "\n", "t", "w", "o">>
    /\ formatted.out = <<"[", "*", "]", " ", "o", "n", "e", "\n",
                         " ", " ", " ", " ", "t", "w", "o">>

\* The last record of Progress p.
LastOf(p) == RecordsOf(records, p)[Len(RecordsOf(records, p))]

\* C17: the record a Progress logs (at creation, by status(), success() or
\* failure()) has the text "<base>: <status>" when the base message and the
\* status passed to the call are both non-empty, the status alone when the base
\* is empty, and the base alone when the status is empty.
C17_Composition ==
    \A p \in ProgressIds :
        prog[p].created =>
            LET base == prog[p].msg
                status == prog[p].arg
            IN  /\ (base # << >> /\ status # << >>) =>
                      LastOf(p).msg = base \o <<":", " ">> \o status
                /\ base = << >> => LastOf(p).msg = status
                /\ status = << >> => LastOf(p).msg = base

\* C17 witness: a Progress with base "T" and first status "c" has logged "T: c"
\* at creation, then "T" for an empty status, then "T: Done".
C17_Witness ==
    \E p \in ProgressIds :
        /\ Len(records) = 3
        /\ records[1].msg = <<"T", ":", " ", "c">>
        /\ records[2].msg = <<"T">> /\ records[2].msgtype = "status"
        /\ records[3].msg = <<"T", ":", " ", "D", "o", "n", "e">>
        /\ prog[p].arg = Done

\* C18: whatever the order of the steps of the getLogger calls, made from one
\* thread or from several at once, all calls with one name return one and the
\* same Logger, and _loggers never holds a second Logger for a name that had
\* one.
C18_RegistrySingleInstance ==
    \A name \in Loggers :
        /\ Cardinality({i \in 1 .. instances : <<name, i>> \in returned}) <= 1
        /\ Cardinality({i \in 1 .. instances : <<name, i>> \in stored}) <= 1

\* C19: the step that creates a Progress logs exactly one record, tagged
\* 'status', of the level of the Progress and referring to it, and leaves the
\* Progress Active with last_status 0; as long as no status() has been accepted
\* since, the throttle admits a status() call, at the instant of creation
\* included, and the record of such a call is logged.
C19_Creation ==
    /\ [](\A p \in ProgressIds :
            (Active(p) /\ last_accept[p] = 0) =>
                /\ prog[p].last_status = 0
                /\ now - prog[p].last_status > 100)
    /\ [][\A p \in ProgressIds :
            /\ (~prog[p].created /\ prog'[p].created) =>
                  /\ ~prog'[p].stopped
                  /\ prog'[p].last_status = 0 /\ last_accept'[p] = 0
                  /\ Len(records') = Len(records) + 1
                  /\ SubSeq(records', 1, Len(records)) = records
                  /\ records'[Len(records')].msgtype = "status"
                  /\ records'[Len(records')].progress = p
                  /\ records'[Len(records')].level = prog'[p].level
            /\ (Active(p) /\ last_accept[p] = 0 /\ prog'[p].last_status # 0) =>
                  /\ last_accept'[p] = now
                  /\ Len(records') = Len(records) + 1
                  /\ records'[Len(records')].msgtype = "status"
                  /\ records'[Len(records')].progress = p]_vars

\* C19 witness: a status() call made at the instant the Progress was created
\* has logged its record after the initial one.
C19_Witness ==
    \E p \in ProgressIds :
        /\ now = Epoch
        /\ Active(p)
        /\ Len(records) = 2
        /\ records[1].progress = p /\ records[1].msgtype = "status"
        /\ records[2].progress = p /\ records[2].msgtype = "status"
        /\ last_accept[p] = Epoch

\* C20: on an Active Progress, once a status() call has been accepted and
\* returned, the stored status text is the text passed to the most recent
\* accepted call, last_status is the time of that call, and the last record of
\* the Progress is the one it logged, tagged 'status'.
C20_AcceptedStatus ==
    \A p \in ProgressIds :
        (Active(p) /\ fg.pc = "idle" /\ last_accept[p] # 0) =>
            /\ prog[p].status = prog[p].arg
            /\ prog[p].last_status = last_accept[p]
            /\ LastOf(p).msgtype = "status"
            /\ LastOf(p).progress = p

\* C21: the spinner thread of a Progress has ended only if its stop event is
\* set; the event, once set, stays set, and from then on the thread draws at
\* most one more frame (from its wait it can only end) and, scheduled fairly,
\* ends, so that the foreground leaves join(); the event is set only by the
\* step that logs a delivered non-status record of that Progress in term_mode,
\* so the thread of a Progress with no such record is still running.
C21_AnimatorLifetime ==
    /\ [](\A p \in ProgressIds :
            /\ spin[p] = "done" => stop_event[p]
            /\ (spin[p] # "none" /\ \A i \in 1 .. Len(records) :
                    ~(/\ records[i].progress = p
                      /\ records[i].msgtype # "status"
                      /\ records[i].route = "animated")) =>
                  ~stop_event[p] /\ spin[p] \in {"draw", "wait"})
    /\ [][\A p \in ProgressIds :
            /\ stop_event[p] =>
                  /\ stop_event'[p]
                  /\ spin[p] = "wait" => spin'[p] \in {"wait", "done"}
                  /\ spin[p] = "done" => spin'[p] = "done" /\ frame'[p] = frame[p]
            /\ (~stop_event[p] /\ stop_event'[p]) =>
                  /\ Len(records') = Len(records) + 1
                  /\ records'[Len(records')].progress = p
                  /\ records'[Len(records')].msgtype # "status"
                  /\ records'[Len(records')].route = "animated"
                  /\ term_mode]_vars
    /\ \A p \in ProgressIds : stop_event[p] ~> (spin[p] = "done")
    /\ (fg.pc = "join") ~> (fg.pc = "ret")

\* C21 witness: the thread of a Progress was started by a status record, then
\* stopped by failure(); it has ended and the foreground has left join().
C21_Witness ==
    \E p \in ProgressIds :
        /\ fg.pc = "ret" /\ fg.p = p /\ fg.msgtype = "failure"
        /\ records[1].route = "animated" /\ records[1].msgtype = "status"
        /\ records[Len(records)].route = "animated"
        /\ stop_event[p] /\ spin[p] = "done" /\ started[p] = 1

\* C22: info_once and warning_once add the rendered string to their set before
\* logging the record and whether or not the record is delivered: a string
\* whose record was filtered out is in the set and is never logged again,
\* whatever context.log_level is changed to; and each of the two has its own
\* set: a string passed only to one is not in the set of the other, and a
\* string passed to both is logged once by each.
C22_OnceIndependentOfDelivery ==
    /\ \A t \in Threads :
          thr[t].pc = "log" => thr[t].m \in OnceSet(thr[t].kind)
    /\ \A kind \in OnceKinds, m \in Rendered :
          /\ once_calls[<<kind, m>>] = 0 => m \notin OnceSet(kind)
          /\ (AllIdle /\ once_calls[<<kind, m>>] > 0) =>
                /\ m \in OnceSet(kind)
                /\ Emitted(kind, m) = 1
          /\ \A i \in 1 .. Len(records) :
                (records[i].msgtype = kind /\ Format(records[i].msg, records[i].args) = m) =>
                    /\ m \in OnceSet(kind) \/ \E t \in Threads : thr[t].pc = "log"
                    /\ \A j \in 1 .. Len(records) \ {i} :
                          ~(/\ records[j].msgtype = kind
                            /\ Format(records[j].msg, records[j].args) = m)

\* C22 witness: info_once("Ub") was first called with context.log_level at
\* ERROR and its record filtered out; the level is back at INFO, info_once was
\* called again and logged nothing, and warning_once logged the same string.
C22_Witness ==
    /\ AllIdle
    /\ log_level = INFO
    /\ once_calls[<<"info_once", <<"U", "b">> >>] = 2
    /\ once_calls[<<"warning_once", <<"U", "b">> >>] = 1
    /\ Len(records) = 2
    /\ records[1].msgtype = "info_once" /\ records[1].route = "filtered"
    /\ records[2].msgtype = "warning_once" /\ records[2].route = "default"
    /\ <<"U", "b">> \in one_time_infos \cap one_time_warnings

====
